---- MODULE Spec2Model ----
(***************************************************************************)
(* FeedCache (feedfetch.py): a freshness-aware cache in front of the feed  *)
(* parser.  fetch(url) reads the shelf, returns a fresh entry directly,    *)
(* otherwise calls the parse collaborator with the stored validators,      *)
(* classifies the result, computes the next expire_dt and writes the entry *)
(* back.                                                                   *)
(*                                                                         *)
(* Python's None is the empty tuple and a present value x is <<x>>, so     *)
(* that optional values of any type compare.  Strings that the code takes  *)
(* apart (the etag, the cache-control header) are sequences.               *)
(***************************************************************************)
EXTENDS Integers, Sequences, FiniteSets, TLC

VARIABLES
    clock,      \* the wall clock, in seconds
    exists,     \* os.path.exists(self.path)
    shelf,      \* the shelf at self.path: url -> None | Some(Feed)
    pc,         \* per caller: position inside fetch
    url,        \* per caller: fetch's argument
    now,        \* per caller: local `now` (line 102)
    cached,     \* per caller: local `cached` (line 105)
    etag,       \* per caller: local `etag`
    lastmod,    \* per caller: local `lastmod`
    feed,       \* per caller: local `feed`, the collaborator's result
    fetched,    \* per caller: local `fetched`, the Feed about to be written
    min_age,    \* per caller: local `min_age`, the effective TTL (lines 150-153)
    invoked,    \* per caller: the arguments self.parse was called with, if it was
    outcome,    \* per caller: how the call ended (return value or exception)
    pre,        \* per caller: the shelf and the file's existence when the call began
    wrote,      \* per caller: the clock reading when __update stored the entry
    shelf_t,    \* the locking discipline of the shelf (self.shelf_t)
    held,       \* per caller: the flag of the session it has open, or "none"
    sessions,   \* per caller: the flags of the sessions this call opened
    attempts,   \* per caller: how often this call called self.parse
    stores,     \* per caller: how often this call stored an entry
    dirty,      \* per caller: another caller stored under its url before it read
    replaced,   \* per caller: the entry its write replaced
    delivered,  \* per url: the results the collaborator handed back for it
    sc_exists,  \* ShelfCache: os.path.exists(db_path)
    sc_shelf,   \* ShelfCache: key -> None | Some(Item)
    sc_asked,   \* ShelfCache: per key, the exp_seconds of the write that stored it
    sc_get,     \* ShelfCache: what the last get(key) reported
    sc_getitem  \* ShelfCache: what the last cache[key] reported

\* The state of the FeedCache callers.
fetchvars == <<exists, shelf, pc, url, now, cached, etag, lastmod, feed,
               fetched, min_age, invoked, outcome, pre, wrote, shelf_t, held,
               sessions, attempts, stores, dirty, replaced, delivered>>

\* The state of the ShelfCache.
scvars == <<sc_exists, sc_shelf, sc_asked, sc_get, sc_getitem>>

vars == <<clock, fetchvars, scvars>>

----------------------------------------------------------------------------
(* Bounds and inputs *)

MaxClock == 3

\* self.min_age as configured at construction
self_min_age == 2

NOT_MODIFIED == 304

Procs == {"p1", "p2"}

Urls == {"u", "v"}

\* Keys of the ShelfCache: the one its client writes, and one it never writes.
Keys == {"key", "nonkey"}

WrittenKeys == {"key"}

None == <<>>

Some(x) == <<x>>

Val(o) == o[1]

Min(a, b) == IF a < b THEN a ELSE b

\* A cache-control directive, e.g. max-age=60 or public.
Directive(n, a) == [name |-> n, arg |-> a]

\* Values of the cache-control header (None: the header is not there).
CacheControls ==
    { None,
      Some(<<Directive("public", None)>>),
      Some(<<Directive("max-age", Some(1))>>),
      Some(<<Directive("public", None), Directive("max-age", Some(3))>>) }

\* A parsed feed as the collaborator returns it (a FeedParserDict).
FeedDict(st, en, bz, cc, et, md) ==
    [status |-> st, entries |-> en, bozo |-> bz,
     bozo_exception |-> IF bz THEN Some("syntax error") ELSE None,
     headers |-> [cache_control |-> cc], etag |-> et, modified |-> md]

Statuses == {Some(200), Some(NOT_MODIFIED), Some(399), Some(400), Some(500), None}

\* The results the collaborator may return: every status with and without
\* entries and the bozo flag; the cache-control values on a full and on a
\* not-modified response; the entity tags, weak and strong.
Results ==
    { FeedDict(st, en, bz, None, None, None) :
        st \in Statuses, en \in {<<>>, <<"a">>}, bz \in BOOLEAN }
    \cup
    { FeedDict(st, IF st = Some(200) THEN <<"b">> ELSE <<>>, FALSE, cc, None, None) :
        st \in {Some(200), Some(NOT_MODIFIED)}, cc \in CacheControls \ {None} }
    \cup
    { FeedDict(Some(200), <<"c">>, FALSE, None, Some(et), md) :
        et \in { <<"x">>, <<"W", "/", "x">>, <<"W", "x">> },
        md \in { None, Some("Sat") } }

\* What self.parse may hand back: a result, or None.
ResultOpts == {None} \cup { Some(r) : r \in Results }

----------------------------------------------------------------------------
(* Pure helpers of fetch *)

\* str.lstrip(chars): drops every leading character that is in chars.
RECURSIVE lstrip(_, _)
lstrip(s, chars) ==
    IF s # <<>> /\ Head(s) \in chars THEN lstrip(Tail(s), chars) ELSE s

\* Python truthiness of an optional string.
Truthy(o) == o # None /\ Val(o) # <<>>

\* etag = etag.lstrip('W/') if etag else None
StripEtag(o) == IF Truthy(o) THEN Some(lstrip(Val(o), {"W", "/"})) ELSE None

\* A cache that is never fresh: every entry is refetched.
IsFresh_Never(n, e) == FALSE

\* The comparison the wrong way round.
IsFresh_Reversed(n, e) == n > e

\* The comparison made inclusive: an entry is still served at its expire_dt.
IsFresh_Inclusive(n, e) == n <= e

\* now < cached.expire_dt
IsFresh(n, e) == n < e

\* feed is None or feed.get('status') is None
FetchFails(r) == r = None \/ Val(r).status = None

\* The status check left out.
HttpError_Never(r) == FALSE

\* The threshold off by one: status 400 is let through.
HttpError_Above400(r) == Val(Val(r).status) > 400

\* feed.get('status') > 399
HttpError(r) == Val(Val(r).status) > 399

\* feed.get('status') < 399 and len(feed.get('entries')) == 0 and feed.get('bozo')
ParseFails(r) ==
    /\ Val(Val(r).status) < 399
    /\ Len(Val(r).entries) = 0
    /\ Val(r).bozo

\* re.search('max-age=(\d+)', cc_header): the first max-age directive with digits
RECURSIVE MaxAgeMatch(_)
MaxAgeMatch(cc) ==
    IF cc = <<>> THEN None
    ELSE IF Head(cc).name = "max-age" /\ Head(cc).arg # None THEN Head(cc).arg
    ELSE MaxAgeMatch(Tail(cc))

\* cc_header = fetched.feed.get('headers').get('cache-control') or ''
CcHeader(f) == IF f.headers.cache_control = None THEN <<>> ELSE Val(f.headers.cache_control)

\* lines 149-153
EffectiveMinAge(f) ==
    LET ma_match == MaxAgeMatch(CcHeader(f))
    IN  IF ma_match # None THEN Min(Val(ma_match), self_min_age) ELSE self_min_age

\* The Feed wrapper.
Feed(f, e) == [feed |-> f, expire_dt |-> e]

Returned(f) == [kind |-> "return", feed |-> Some(f), status |-> None, reason |-> None]

Raised(k, st, why) == [kind |-> k, feed |-> None, status |-> st, reason |-> why]

NoOutcome == [kind |-> "none", feed |-> None, status |-> None, reason |-> None]

----------------------------------------------------------------------------
(* State machine *)

\* The two locking disciplines a shelf can be opened under.
ShelfTypes == {"RWShelf", "MutexShelf"}

InitState(t) ==
    /\ clock = 0
    /\ exists = FALSE
    /\ shelf = [u \in Urls |-> None]
    /\ pc = [p \in Procs |-> "idle"]
    /\ url = [p \in Procs |-> "u"]
    /\ now = [p \in Procs |-> 0]
    /\ cached = [p \in Procs |-> None]
    /\ etag = [p \in Procs |-> None]
    /\ lastmod = [p \in Procs |-> None]
    /\ feed = [p \in Procs |-> None]
    /\ fetched = [p \in Procs |-> None]
    /\ min_age = [p \in Procs |-> None]
    /\ invoked = [p \in Procs |-> None]
    /\ outcome = [p \in Procs |-> NoOutcome]
    /\ pre = [p \in Procs |-> [shelf |-> [u \in Urls |-> None], exists |-> FALSE]]
    /\ wrote = [p \in Procs |-> None]
    /\ shelf_t = t
    /\ held = [p \in Procs |-> "none"]
    /\ sessions = [p \in Procs |-> <<>>]
    /\ attempts = [p \in Procs |-> 0]
    /\ stores = [p \in Procs |-> 0]
    /\ dirty = [p \in Procs |-> FALSE]
    /\ replaced = [p \in Procs |-> None]
    /\ delivered = [u \in Urls |-> {}]
    /\ sc_exists = FALSE
    /\ sc_shelf = [k \in Keys |-> None]
    /\ sc_asked = [k \in Keys |-> None]
    /\ sc_get = None
    /\ sc_getitem = None

\* FeedCache(db_path) with the default shelf_t (line 43), no db file yet.
Init == InitState("RWShelf")

\* The wall clock advances.
Tick ==
    /\ clock < MaxClock
    /\ clock' = clock + 1
    /\ UNCHANGED <<fetchvars, scvars>>

\* fetch(u) is entered: lines 100-104.
FetchStart(p, u) ==
    /\ pc[p] \in {"idle", "done"}
    /\ pc' = [pc EXCEPT ![p] = "get"]
    /\ url' = [url EXCEPT ![p] = u]
    /\ now' = [now EXCEPT ![p] = clock]
    /\ cached' = [cached EXCEPT ![p] = None]
    /\ etag' = [etag EXCEPT ![p] = None]
    /\ lastmod' = [lastmod EXCEPT ![p] = None]
    /\ feed' = [feed EXCEPT ![p] = None]
    /\ fetched' = [fetched EXCEPT ![p] = None]
    /\ min_age' = [min_age EXCEPT ![p] = None]
    /\ invoked' = [invoked EXCEPT ![p] = None]
    /\ outcome' = [outcome EXCEPT ![p] = NoOutcome]
    /\ pre' = [pre EXCEPT ![p] = [shelf |-> shelf, exists |-> exists]]
    /\ wrote' = [wrote EXCEPT ![p] = None]
    /\ sessions' = [sessions EXCEPT ![p] = <<>>]
    /\ attempts' = [attempts EXCEPT ![p] = 0]
    /\ stores' = [stores EXCEPT ![p] = 0]
    /\ dirty' = [dirty EXCEPT ![p] = FALSE]
    /\ replaced' = [replaced EXCEPT ![p] = None]
    /\ UNCHANGED <<clock, exists, shelf, shelf_t, held, delivered, scvars>>

\* The lock a session with this flag takes: MutexShelf takes the same
\* exclusive lock for every session, RWShelf a shared lock for flag 'r'.
LockKind(flag) ==
    IF shelf_t = "MutexShelf" \/ flag # "r" THEN "exclusive" ELSE "shared"

\* The lock is granted: an exclusive lock when no session is open, a shared
\* lock when no session holding an exclusive lock is open.
CanOpen(flag) ==
    \A q \in Procs :
        held[q] # "none" =>
            LockKind(flag) = "shared" /\ LockKind(held[q]) = "shared"

\* The session is entered without the existence check.
DbFound_Always == TRUE

\* os.path.exists(self.path)
DbFound == exists

\* The session is left without giving the lock back.
Release_Leak(p) == held

\* Leaving the with block closes the session of p.
Release(p) == [held EXCEPT ![p] = "none"]

\* The write session opened like a read session.
UpdateFlag_Read == "r"

\* The flags the sessions are opened with: lines 60 and 68.
GetFlag == "r"

UpdateFlag == "c"

\* with self.shelf_t(self.path, flag='r') as shelf: line 60, after line 59
\* found the file.  Blocks until the lock is granted.
OpenRead(p) ==
    /\ pc[p] = "get"
    /\ DbFound
    /\ CanOpen(GetFlag)
    /\ pc' = [pc EXCEPT ![p] = "reading"]
    /\ held' = [held EXCEPT ![p] = GetFlag]
    /\ sessions' = [sessions EXCEPT ![p] = Append(@, GetFlag)]
    /\ UNCHANGED <<clock, exists, shelf, url, now, cached, etag, lastmod, feed,
                   fetched, min_age, invoked, outcome, pre, wrote, shelf_t,
                   attempts, stores, dirty, replaced, delivered, scvars>>

\* The read that finds nothing although the entry is there.
Lookup_Miss(u) == None

\* self.__get(url)
Lookup(u) == IF exists THEN shelf[u] ELSE None

\* cached = self.__get(url) and the branch on it: lines 105-118.  The read
\* happens inside the session, or without one when there is no db file.
Get(p) ==
    /\ \/ pc[p] = "reading"
       \/ pc[p] = "get" /\ ~DbFound
    /\ held' = Release(p)
    /\ LET c == Lookup(url[p]) IN
        /\ cached' = [cached EXCEPT ![p] = c]
        /\ IF c # None /\ IsFresh(now[p], Val(c).expire_dt)
           THEN /\ pc' = [pc EXCEPT ![p] = "done"]
                /\ outcome' = [outcome EXCEPT ![p] = Returned(Val(c).feed)]
                /\ UNCHANGED <<etag, lastmod>>
           ELSE /\ pc' = [pc EXCEPT ![p] = "parse"]
                /\ etag' = [etag EXCEPT ![p] =
                              IF c # None THEN StripEtag(Val(c).feed.etag) ELSE None]
                /\ lastmod' = [lastmod EXCEPT ![p] =
                              IF c # None THEN Val(c).feed.modified ELSE None]
                /\ UNCHANGED outcome
    /\ UNCHANGED <<clock, exists, shelf, url, now, feed, fetched, min_age,
                   invoked, pre, wrote, shelf_t, sessions, attempts, stores,
                   dirty, replaced, delivered, scvars>>

\* shelf.get(url) raises inside the session (the db cannot be read): the
\* session is closed and the error propagates.
GetFail(p) ==
    /\ pc[p] = "reading"
    /\ held' = Release(p)
    /\ pc' = [pc EXCEPT ![p] = "done"]
    /\ outcome' = [outcome EXCEPT ![p] = Raised("StoreError", None, Some("read"))]
    /\ UNCHANGED <<clock, exists, shelf, url, now, cached, etag, lastmod, feed,
                   fetched, min_age, invoked, pre, wrote, shelf_t, sessions,
                   attempts, stores, dirty, replaced, delivered, scvars>>

\* self.parse(url, etag=etag, modified=lastmod) is called: line 124.
ParseCall(p) ==
    /\ pc[p] = "parse"
    /\ pc' = [pc EXCEPT ![p] = "parsing"]
    /\ invoked' = [invoked EXCEPT ![p] =
                     Some([url |-> url[p], etag |-> etag[p], modified |-> lastmod[p]])]
    /\ attempts' = [attempts EXCEPT ![p] = @ + 1]
    /\ UNCHANGED <<clock, exists, shelf, url, now, cached, etag, lastmod, feed,
                   fetched, min_age, outcome, pre, wrote, shelf_t, held,
                   sessions, stores, dirty, replaced, delivered, scvars>>

\* The failed call is made again (at most twice) instead of giving up.
ParseRaise_Retry(p) ==
    /\ pc[p] = "parsing"
    /\ pc' = [pc EXCEPT ![p] = IF attempts[p] < 2 THEN "parse" ELSE "done"]
    /\ outcome' = [outcome EXCEPT ![p] =
                     IF attempts[p] < 2 THEN NoOutcome
                     ELSE Raised("URLError", None, None)]
    /\ UNCHANGED <<clock, exists, shelf, url, now, cached, etag, lastmod, feed,
                   fetched, min_age, invoked, pre, wrote, shelf_t, held,
                   sessions, attempts, stores, dirty, replaced, delivered, scvars>>

\* The collaborator raises (URLError): nothing in fetch catches it.
ParseRaise(p) ==
    /\ pc[p] = "parsing"
    /\ pc' = [pc EXCEPT ![p] = "done"]
    /\ outcome' = [outcome EXCEPT ![p] = Raised("URLError", None, None)]
    /\ UNCHANGED <<clock, exists, shelf, url, now, cached, etag, lastmod, feed,
                   fetched, min_age, invoked, pre, wrote, shelf_t, held,
                   sessions, attempts, stores, dirty, replaced, delivered, scvars>>

\* The not-modified branch left out: the body-less result is kept.
Payload_KeepResult(r, c) == Val(r)

\* The payload of the entry to write: lines 141-144.
Payload(r, c) ==
    IF Val(r).status = Some(NOT_MODIFIED) THEN Val(c).feed ELSE Val(r)

\* The collaborator returned r; fetch classifies it and prepares the entry:
\* lines 126-154.  Nothing is stored here.
Classify(p, r) ==
    /\ pc[p] = "parsing"
    /\ feed' = [feed EXCEPT ![p] = r]
    /\ IF FetchFails(r) THEN
            /\ outcome' = [outcome EXCEPT ![p] = Raised("FetchError", None, None)]
            /\ pc' = [pc EXCEPT ![p] = "done"]
            /\ UNCHANGED <<fetched, min_age>>
       ELSE IF HttpError(r) THEN
            /\ outcome' = [outcome EXCEPT ![p] =
                             Raised("FetchError", Val(r).status, None)]
            /\ pc' = [pc EXCEPT ![p] = "done"]
            /\ UNCHANGED <<fetched, min_age>>
       ELSE IF ParseFails(r) THEN
            /\ outcome' = [outcome EXCEPT ![p] =
                             Raised("ParseError", None, Val(r).bozo_exception)]
            /\ pc' = [pc EXCEPT ![p] = "done"]
            /\ UNCHANGED <<fetched, min_age>>
       ELSE IF Val(r).status = Some(NOT_MODIFIED) /\ cached[p] = None THEN
            \* cached.feed on None (line 144)
            /\ outcome' = [outcome EXCEPT ![p] = Raised("AttributeError", None, None)]
            /\ pc' = [pc EXCEPT ![p] = "done"]
            /\ UNCHANGED <<fetched, min_age>>
       ELSE LET f == Payload(r, cached[p])
                m == EffectiveMinAge(f)
            IN  /\ min_age' = [min_age EXCEPT ![p] = Some(m)]
                /\ fetched' = [fetched EXCEPT ![p] = Some(Feed(f, now[p] + m))]
                /\ pc' = [pc EXCEPT ![p] = "update"]
                /\ UNCHANGED outcome
    /\ UNCHANGED <<clock, url, now, cached, etag, lastmod, invoked, pre, wrote,
                   shelf_t, held, sessions, attempts, stores, dirty, replaced,
                   scvars>>

\* The entry stored as soon as the collaborator returns, before it is classified.
ParseReturn_StoreFirst(p, r) ==
    /\ Classify(p, r)
    /\ UNCHANGED delivered
    /\ IF r = None
       THEN UNCHANGED <<exists, shelf>>
       ELSE /\ exists' = TRUE
            /\ shelf' = [shelf EXCEPT ![url[p]] = Some(Feed(Val(r), now[p]))]

ParseReturn(p, r) ==
    /\ Classify(p, r)
    /\ UNCHANGED <<exists, shelf, delivered>>

\* The same step, with the result noted as delivered for the url asked.
ParseReturnNoted(p, r) ==
    /\ Classify(p, r)
    /\ delivered' = [delivered EXCEPT ![url[p]] = @ \cup {r}]
    /\ UNCHANGED <<exists, shelf>>

\* with self.shelf_t(self.path, flag='c') as shelf: line 68.  Flag 'c'
\* creates the db file.  Blocks until the lock is granted.
OpenWrite(p) ==
    /\ pc[p] = "update"
    /\ CanOpen(UpdateFlag)
    /\ pc' = [pc EXCEPT ![p] = "writing"]
    /\ held' = [held EXCEPT ![p] = UpdateFlag]
    /\ sessions' = [sessions EXCEPT ![p] = Append(@, UpdateFlag)]
    /\ exists' = TRUE
    /\ UNCHANGED <<clock, shelf, url, now, cached, etag, lastmod, feed,
                   fetched, min_age, invoked, outcome, pre, wrote, shelf_t,
                   attempts, stores, dirty, replaced, delivered, scvars>>

\* shelf[url] = feed inside the session, the session closed, and
\* return fetched.feed: lines 69-70, 155-156.
Update(p) ==
    /\ pc[p] = "writing"
    /\ held' = Release(p)
    /\ shelf' = [shelf EXCEPT ![url[p]] = fetched[p]]
    /\ wrote' = [wrote EXCEPT ![p] = Some(clock)]
    /\ stores' = [stores EXCEPT ![p] = @ + 1]
    /\ replaced' = [replaced EXCEPT ![p] = Some(shelf[url[p]])]
    /\ dirty' = [q \in Procs |->
                   IF q # p /\ url[q] = url[p] /\ pc[q] \in {"get", "reading"}
                   THEN TRUE ELSE dirty[q]]
    /\ outcome' = [outcome EXCEPT ![p] = Returned(Val(fetched[p]).feed)]
    /\ pc' = [pc EXCEPT ![p] = "done"]
    /\ UNCHANGED <<clock, exists, url, now, cached, etag, lastmod, feed, fetched,
                   min_age, invoked, pre, shelf_t, sessions, attempts,
                   delivered, scvars>>

\* shelf[url] = feed raises inside the session (the entry cannot be
\* pickled): nothing is stored, the session is closed, the error propagates.
UpdateFail(p) ==
    /\ pc[p] = "writing"
    /\ held' = Release(p)
    /\ pc' = [pc EXCEPT ![p] = "done"]
    /\ outcome' = [outcome EXCEPT ![p] = Raised("StoreError", None, Some("write"))]
    /\ UNCHANGED <<clock, exists, shelf, url, now, cached, etag, lastmod, feed,
                   fetched, min_age, invoked, pre, wrote, shelf_t, sessions,
                   attempts, stores, dirty, replaced, delivered, scvars>>

\* One caller at a time: the calls of a single-threaded client.
Callers == {"p1"}

Next ==
    \/ Tick
    \/ \E p \in Callers, u \in Urls : FetchStart(p, u)
    \/ \E p \in Callers : OpenRead(p)
    \/ \E p \in Callers : Get(p)
    \/ \E p \in Callers : GetFail(p)
    \/ \E p \in Callers : ParseCall(p)
    \/ \E p \in Callers : ParseRaise(p)
    \/ \E p \in Callers, r \in ResultOpts : ParseReturn(p, r)
    \/ \E p \in Callers : OpenWrite(p)
    \/ \E p \in Callers : Update(p)
    \/ \E p \in Callers : UpdateFail(p)

Spec == Init /\ [][Next]_vars

----------------------------------------------------------------------------
(* Several callers sharing one db file *)

\* The url the concurrent callers fetch.
ConcUrls == {"u"}

\* What the collaborator hands the concurrent callers: a feed to keep for
\* min_age and a feed with max-age=1.
ConcResultOpts ==
    { Some(FeedDict(Some(200), <<"a">>, FALSE, None, None, None)),
      Some(FeedDict(Some(200), <<"b">>, FALSE,
                    Some(<<Directive("max-age", Some(1))>>), None, None)) }

\* The shelf type is the caller's choice at construction (line 43).
InitConc == \E t \in ShelfTypes : InitState(t)

\* Threads or processes, each inside its own fetch call.
NextConc ==
    \/ Tick
    \/ \E p \in Procs, u \in ConcUrls : FetchStart(p, u)
    \/ \E p \in Procs : OpenRead(p)
    \/ \E p \in Procs : Get(p)
    \/ \E p \in Procs : GetFail(p)
    \/ \E p \in Procs : ParseCall(p)
    \/ \E p \in Procs : ParseRaise(p)
    \/ \E p \in Procs, r \in ConcResultOpts : ParseReturn(p, r)
    \/ \E p \in Procs : OpenWrite(p)
    \/ \E p \in Procs : Update(p)
    \/ \E p \in Procs : UpdateFail(p)

SpecConc == InitConc /\ [][NextConc]_vars

\* What the collaborator hands the callers whose stored entries are traced
\* back to it: a feed to keep for min_age, a feed stale at once (max-age=0),
\* a not-modified answer, a server error.
StoredResultOpts ==
    { Some(FeedDict(Some(200), <<"a">>, FALSE, None, None, None)),
      Some(FeedDict(Some(200), <<"b">>, FALSE,
                    Some(<<Directive("max-age", Some(0))>>), None, None)),
      Some(FeedDict(Some(NOT_MODIFIED), <<>>, FALSE, None, None, None)),
      Some(FeedDict(Some(500), <<>>, FALSE, None, None, None)) }

\* Two callers fetching two urls from an empty store, every result noted.
NextStored ==
    \/ \E p \in Procs, u \in Urls : FetchStart(p, u)
    \/ \E p \in Procs : OpenRead(p)
    \/ \E p \in Procs : Get(p)
    \/ \E p \in Procs : ParseCall(p)
    \/ \E p \in Procs, r \in StoredResultOpts : ParseReturnNoted(p, r)
    \/ \E p \in Procs : OpenWrite(p)
    \/ \E p \in Procs : Update(p)

SpecStored == Init /\ [][NextStored]_vars

----------------------------------------------------------------------------
(* ShelfCache: the TTL cache over the locked shelf *)

\* Payloads and exp_seconds arguments of the ShelfCache writes.
Data == {"val", "data"}

ExpSeconds == {None, Some(1), Some(2)}

\* The stored unit.
Item(d, e, c) == [data |-> d, expire_dt |-> e, created_dt |-> c]

\* An item without an expire_dt taken for expired.
IsStale_NoneExpired(it, t) == it.expire_dt = None \/ Val(it.expire_dt) <= t

\* An item with an expire_dt is stale from that time on; one without never is.
IsStale(it, t) == it.expire_dt # None /\ Val(it.expire_dt) <= t

\* What a read reports for a key: nothing, or (data, is_stale).
ReadResult(k) ==
    IF ~sc_exists \/ sc_shelf[k] = None THEN None
    ELSE Some(<<Val(sc_shelf[k]).data, IsStale(Val(sc_shelf[k]), clock)>>)

\* create_or_update(key, data, exp_seconds=t): created_dt is the clock at the
\* write and expire_dt = created_dt + t.  A write ends what earlier reads
\* reported.
CreateOrUpdate(k, d, t) ==
    /\ sc_exists' = TRUE
    /\ sc_shelf' = [sc_shelf EXCEPT ![k] =
           Some(Item(d, IF t = None THEN None ELSE Some(clock + Val(t)), clock))]
    /\ sc_asked' = [sc_asked EXCEPT ![k] = t]
    /\ sc_get' = None
    /\ sc_getitem' = None
    /\ UNCHANGED <<clock, fetchvars>>

\* cache[key] = data: an entry that never expires.
SetItem(k, d) == CreateOrUpdate(k, d, None)

\* The lookups a read makes on the shelf: none without a db file.
Lookups == IF sc_exists THEN 1 ELSE 0

\* get(key): no result for a missing key or a missing file, never an error.
ScGet(k) ==
    /\ sc_get' = Some([key |-> k, at |-> clock, result |-> ReadResult(k),
                       lookups |-> Lookups, error |-> ""])
    /\ UNCHANGED <<clock, fetchvars, sc_exists, sc_shelf, sc_asked, sc_getitem>>

\* The missing key passed over in silence.
GetItemError_Silent(res) == ""

\* cache[key] signals a missing key.
GetItemError(res) == IF res = None THEN "KeyError" ELSE ""

\* cache[key]: KeyError for a missing key.
ScGetItem(k) ==
    /\ sc_getitem' = Some([key |-> k, at |-> clock, result |-> ReadResult(k),
                           lookups |-> Lookups,
                           error |-> GetItemError(ReadResult(k))])
    /\ UNCHANGED <<clock, fetchvars, sc_exists, sc_shelf, sc_asked, sc_get>>

\* The results of a collaborator that always delivers a feed.
GoodResultOpts ==
    { Some(r) : r \in { x \in Results :
        x.status = Some(200) /\ x.entries # <<>> /\ ~x.bozo /\ x.etag = None } }

\* One FeedCache caller on one url next to a client of the ShelfCache.
NextTTL ==
    \/ Tick
    \/ \E p \in Callers : FetchStart(p, "u")
    \/ \E p \in Callers : OpenRead(p)
    \/ \E p \in Callers : Get(p)
    \/ \E p \in Callers : GetFail(p)
    \/ \E p \in Callers : ParseCall(p)
    \/ \E p \in Callers : ParseRaise(p)
    \/ \E p \in Callers, r \in GoodResultOpts : ParseReturn(p, r)
    \/ \E p \in Callers : OpenWrite(p)
    \/ \E p \in Callers : Update(p)
    \/ \E p \in Callers : UpdateFail(p)
    \/ \E k \in WrittenKeys, d \in Data, t \in ExpSeconds : CreateOrUpdate(k, d, t)
    \/ \E k \in WrittenKeys : ScGet(k)
    \/ \E k \in WrittenKeys : ScGetItem(k)

SpecTTL == Init /\ [][NextTTL]_vars

\* A client of the ShelfCache alone, reading written and unwritten keys.
NextSC ==
    \/ Tick
    \/ \E k \in WrittenKeys, d \in Data, t \in ExpSeconds : CreateOrUpdate(k, d, t)
    \/ \E k \in WrittenKeys, d \in Data : SetItem(k, d)
    \/ \E k \in Keys : ScGet(k)
    \/ \E k \in Keys : ScGetItem(k)

SpecSC == Init /\ [][NextSC]_vars

----------------------------------------------------------------------------
(* Properties of fetch *)

\* The call of p is over.
Done(p) == pc[p] = "done"

\* The collaborator was called by p and handed a result back.
Answered(p) == Done(p) /\ invoked[p] # None /\ outcome[p].kind # "URLError"

\* The collaborator's answer to p carries a status.
HasStatus(p) == Answered(p) /\ feed[p] # None /\ Val(feed[p]).status # None

StatusOf(p) == Val(Val(feed[p]).status)

\* C1: a fetch call that ends in failure (FetchError, ParseError, a failure
\* raised by the collaborator, or any other exception) has written nothing:
\* the shelf, every key of it, is what it was when the call began.
C1_FailedFetchWritesNothing ==
    \A p \in Procs :
        (Done(p) /\ outcome[p].kind # "return") =>
            /\ wrote[p] = None
            /\ shelf = pre[p].shelf

\* A call failed with a FetchError while a stale entry for its key and an
\* entry for the other key were stored.
C1_Witness ==
    \E p \in Procs :
        /\ Done(p) /\ outcome[p].kind = "FetchError"
        /\ cached[p] # None
        /\ \A u \in Urls : shelf[u] # None

\* C2: a fetch that reads an entry whose expire_dt is later than the current
\* time returns the stored payload, does not call the collaborator and
\* leaves the shelf unchanged.
C2_FreshEntryServedFromCache ==
    \A p \in Procs :
        (pc[p] \notin {"idle", "get"} /\ cached[p] # None
            /\ now[p] < Val(cached[p]).expire_dt) =>
            /\ Done(p)
            /\ outcome[p] = Returned(Val(cached[p]).feed)
            /\ invoked[p] = None
            /\ wrote[p] = None
            /\ shelf = pre[p].shelf
            /\ exists = pre[p].exists

\* A fresh entry was read one second before it expires.
C2_Witness ==
    \E p \in Procs :
        /\ Done(p) /\ cached[p] # None
        /\ now[p] + 1 = Val(cached[p]).expire_dt
        /\ outcome[p].kind = "return"

\* The max-age value d of a result's own cache-control header, if any.
MaxAgeOf(f) == MaxAgeMatch(CcHeader(f))

\* min(d, M), or M without a directive.
TtlLaw(f) ==
    IF MaxAgeOf(f) # None THEN Min(Val(MaxAgeOf(f)), self_min_age) ELSE self_min_age

\* C3: for every accepted result the TTL of the written entry is min(d, M)
\* when the result's cache-control carries max-age = d, and M otherwise.
C3_EffectiveTtlOfResult ==
    \A p \in Procs :
        (Done(p) /\ wrote[p] # None) => Val(min_age[p]) = TtlLaw(Val(feed[p]))

\* C4: a stale entry and a 304 answer that passes classification, the shelf
\* taking the write: the payload returned and the payload stored are the
\* previously stored payload, and the entry's expire_dt is written anew.
C4_NotModifiedKeepsPayload ==
    \A p \in Procs :
        (HasStatus(p) /\ cached[p] # None /\ StatusOf(p) = NOT_MODIFIED
            /\ ~(Val(feed[p]).entries = <<>> /\ Val(feed[p]).bozo)
            /\ outcome[p].kind # "StoreError") =>
            /\ outcome[p] = Returned(Val(cached[p]).feed)
            /\ wrote[p] # None
            /\ shelf[url[p]] =
                 Some(Feed(Val(cached[p]).feed, now[p] + Val(min_age[p])))

\* A 304 answer to a stale entry whose payload differs from the 304 result,
\* and whose expire_dt moved.
C4_Witness ==
    \E p \in Procs :
        /\ HasStatus(p) /\ cached[p] # None /\ StatusOf(p) = NOT_MODIFIED
        /\ outcome[p].kind = "return"
        /\ Val(cached[p]).feed # Val(feed[p])
        /\ Val(shelf[url[p]]).expire_dt > Val(cached[p]).expire_dt

\* A tag with only a leading weak-validator prefix W/ removed.
WeakPrefixRemoved(o) ==
    IF o = None THEN None
    ELSE LET s == Val(o) IN
         IF Len(s) >= 2 /\ s[1] = "W" /\ s[2] = "/"
         THEN Some(SubSeq(s, 3, Len(s))) ELSE Some(s)

\* C5: on a stale entry the collaborator gets the stored etag with only a
\* leading W/ removed and the stored last-modified marker; without an entry
\* it gets no validators.
C5_ValidatorsPassed ==
    \A p \in Procs :
        invoked[p] # None =>
            IF cached[p] = None
            THEN Val(invoked[p]).etag = None /\ Val(invoked[p]).modified = None
            ELSE /\ Val(invoked[p]).etag = WeakPrefixRemoved(Val(cached[p]).feed.etag)
                 /\ Val(invoked[p]).modified = Val(cached[p]).feed.modified

\* C6: every result with a status below 400, no entries and the bozo flag
\* ends in ParseError carrying the bozo exception, and nothing is written.
C6_MalformedRaisesParseError ==
    \A p \in Procs :
        (HasStatus(p) /\ StatusOf(p) < 400
            /\ Val(feed[p]).entries = <<>> /\ Val(feed[p]).bozo) =>
            /\ outcome[p] = Raised("ParseError", None, Val(feed[p]).bozo_exception)
            /\ wrote[p] = None

\* C7: a result with status >= 400 ends in FetchError carrying that status,
\* a result without a status (or no result) in FetchError without one,
\* whatever its entries and bozo flag and whether an entry was cached.
C7_FetchErrorCarriesStatus ==
    \A p \in Procs :
        Answered(p) =>
            /\ (feed[p] = None \/ Val(feed[p]).status = None) =>
                   outcome[p] = Raised("FetchError", None, None)
            /\ (HasStatus(p) /\ StatusOf(p) >= 400) =>
                   outcome[p] = Raised("FetchError", Some(StatusOf(p)), None)

\* Status 400 with entries, on a stale entry, ended in FetchError(400).
C7_Witness ==
    \E p \in Procs :
        /\ HasStatus(p) /\ StatusOf(p) = 400
        /\ Val(feed[p]).entries # <<>>
        /\ cached[p] # None
        /\ outcome[p].kind = "FetchError" /\ outcome[p].status = Some(400)

\* C8: the written expire_dt is the clock reading at the write plus the
\* effective TTL.
C8_ExpireFromWriteTime ==
    \A p \in Procs :
        (Done(p) /\ wrote[p] # None) =>
            Val(fetched[p]).expire_dt = Val(wrote[p]) + Val(min_age[p])

\* C9: on a 304 answer the effective TTL comes from the 304 response's own
\* headers, whatever the stored payload's headers say.
C9_NotModifiedTtlFromResponse ==
    \A p \in Procs :
        (Done(p) /\ wrote[p] # None /\ StatusOf(p) = NOT_MODIFIED) =>
            Val(min_age[p]) = TtlLaw(Val(feed[p]))

\* The caller p was served from the cache.
ServedFromCache(p) == Done(p) /\ invoked[p] = None /\ outcome[p].kind = "return"

\* C10: an entry written with exp_seconds = t has expire_dt = created_dt + t;
\* a read at time c reports it not stale when c < created_dt + t and stale
\* when c >= created_dt + t; get(key) and cache[key] report the same
\* (data, is_stale) pair; fetch serves an entry from the cache exactly when
\* now < expire_dt.
C10_StalenessBoundary ==
    /\ \A k \in Keys :
          (sc_shelf[k] # None /\ sc_asked[k] # None) =>
              Val(sc_shelf[k]).expire_dt =
                  Some(Val(sc_shelf[k]).created_dt + Val(sc_asked[k]))
    /\ (sc_get # None /\ sc_asked[Val(sc_get).key] # None) =>
          LET r == Val(sc_get)
              it == Val(sc_shelf[r.key])
          IN  r.result =
                  Some(<<it.data, r.at >= it.created_dt + Val(sc_asked[r.key])>>)
    /\ (sc_get # None /\ sc_getitem # None
           /\ Val(sc_get).key = Val(sc_getitem).key
           /\ Val(sc_get).at = Val(sc_getitem).at) =>
          Val(sc_get).result = Val(sc_getitem).result
    /\ \A p \in Procs :
          (pc[p] \notin {"idle", "get"} /\ cached[p] # None) =>
              (ServedFromCache(p) <=> now[p] < Val(cached[p]).expire_dt)

\* A read exactly at created_dt + t reported stale, and a fetch that began
\* exactly at expire_dt went to the collaborator.
C10_Witness ==
    /\ sc_get # None /\ sc_asked[Val(sc_get).key] # None
    /\ Val(sc_get).at =
          Val(sc_shelf[Val(sc_get).key]).created_dt + Val(sc_asked[Val(sc_get).key])
    /\ Val(sc_get).result # None /\ Val(Val(sc_get).result)[2] = TRUE
    /\ sc_getitem # None /\ Val(sc_getitem).result = Val(sc_get).result
    /\ \E p \in Procs :
          /\ cached[p] # None /\ now[p] = Val(cached[p]).expire_dt
          /\ invoked[p] # None

----------------------------------------------------------------------------
(* Properties of the store file, the attempts and the outcomes *)

\* The flags of the sessions p's call has opened, as a set.
Opened(p) == { sessions[p][i] : i \in 1..Len(sessions[p]) }

\* The read of p's call is over.
ReadOver(p) == pc[p] \notin {"idle", "get", "reading"}

\* C11: with no store file at the path, the read opens no session and looks
\* nothing up, it reports the entry missing and raises nothing; fetch calls
\* the collaborator without validators, and an accepted result creates the
\* store by its write.
C11_MissingFileIsAMiss ==
    \A p \in Procs :
        (pc[p] # "idle" /\ ~pre[p].exists) =>
            /\ pc[p] # "reading"
            /\ "r" \notin Opened(p)
            /\ ReadOver(p) =>
                  /\ cached[p] = None
                  /\ outcome[p] # Raised("StoreError", None, Some("read"))
            /\ Done(p) => invoked[p] # None
            /\ invoked[p] # None =>
                  Val(invoked[p]) = [url |-> url[p], etag |-> None, modified |-> None]
            /\ (Done(p) /\ outcome[p].kind = "return") =>
                  /\ exists
                  /\ sessions[p] = <<"c">>
                  /\ shelf[url[p]] = fetched[p]

\* A fetch met no store file and left a store holding its entry.
C11_Witness ==
    \E p \in Procs :
        /\ Done(p) /\ ~pre[p].exists /\ outcome[p].kind = "return"
        /\ exists /\ shelf[url[p]] # None

\* The entry p's call read was missing or stale.
MissingOrStale(p) ==
    /\ ReadOver(p)
    /\ outcome[p] # Raised("StoreError", None, Some("read"))
    /\ cached[p] = None \/ now[p] >= Val(cached[p]).expire_dt

\* C17: a fetch call calls the collaborator at most once and stores at most
\* once; exactly once when the entry is missing or stale; and it stores
\* only after that one call handed back a result with a status below 400.
C17_SingleAttempt ==
    \A p \in Procs :
        /\ attempts[p] <= 1
        /\ stores[p] <= 1
        /\ (Done(p) /\ MissingOrStale(p)) => attempts[p] = 1
        /\ (pc[p] = "writing" \/ stores[p] >= 1) =>
              /\ attempts[p] = 1
              /\ feed[p] # None /\ Val(feed[p]).status # None
              /\ Val(Val(feed[p]).status) < 400

\* A stale entry was revalidated by one call and one write.
C17_Witness ==
    \E p \in Procs :
        /\ Done(p) /\ cached[p] # None
        /\ attempts[p] = 1 /\ stores[p] = 1

\* C18: every fetch call ends by returning a payload, in FetchError, in
\* ParseError, or in a failure propagated from the collaborator or the store.
C18_OutcomeTotality ==
    \A p \in Procs :
        Done(p) =>
            outcome[p].kind \in
                {"return", "FetchError", "ParseError", "URLError", "StoreError"}

----------------------------------------------------------------------------
(* Properties of the ShelfCache reads *)

\* The last read of that form found the store but no entry under its key.
ReadMissingKey(r) == r # None /\ sc_exists /\ sc_shelf[Val(r).key] = None

\* C12: for a key never written to an existing store, get(key) returns no
\* result after exactly one lookup and cache[key] signals KeyError; get(key)
\* never signals it.
C12_MissingKey ==
    /\ ReadMissingKey(sc_get) =>
          /\ Val(sc_get).result = None
          /\ Val(sc_get).lookups = 1
    /\ ReadMissingKey(sc_getitem) => Val(sc_getitem).error = "KeyError"
    /\ sc_get # None => Val(sc_get).error = ""

\* Both forms read the never-written key of a store that exists.
C12_Witness ==
    /\ ReadMissingKey(sc_get) /\ Val(sc_get).key = "nonkey"
    /\ ReadMissingKey(sc_getitem) /\ Val(sc_getitem).key = "nonkey"
    /\ sc_shelf["key"] # None

\* The last read of that form read an entry written without an expiration.
ReadUnexpiring(r) ==
    r # None /\ sc_shelf[Val(r).key] # None /\ sc_asked[Val(r).key] = None

\* C13: an entry written by cache[key] = data, or by create_or_update with no
\* expiration, has no expire_dt, and every read of it reports is_stale
\* false, however far the clock has advanced.
C13_NoExpirationNeverStale ==
    /\ \A k \in Keys :
          (sc_shelf[k] # None /\ sc_asked[k] = None) =>
              Val(sc_shelf[k]).expire_dt = None
    /\ ReadUnexpiring(sc_get) =>
          Val(sc_get).result = Some(<<Val(sc_shelf[Val(sc_get).key]).data, FALSE>>)
    /\ ReadUnexpiring(sc_getitem) =>
          /\ Val(sc_getitem).result =
                Some(<<Val(sc_shelf[Val(sc_getitem).key]).data, FALSE>>)
          /\ Val(sc_getitem).error = ""

\* An entry without expiration read when the clock had run to its bound.
C13_Witness ==
    /\ ReadUnexpiring(sc_get)
    /\ Val(sc_shelf[Val(sc_get).key]).created_dt = 0
    /\ Val(sc_get).at = MaxClock
    /\ ReadUnexpiring(sc_getitem)
    /\ Val(sc_getitem).at = MaxClock

----------------------------------------------------------------------------
(* Callers sharing the db file *)

\* The caller has a session open.
InSession(p) == pc[p] \in {"reading", "writing"}

\* C14: a write session overlaps no other session on the db file; under
\* MutexShelf no two sessions of any kind overlap; the only sessions that
\* are ever open together are read sessions under RWShelf.
C14_LockExclusion ==
    /\ \A p \in Procs : InSession(p) <=> held[p] # "none"
    /\ \A p \in Procs : pc[p] = "writing" => held[p] = UpdateFlag
    /\ \A p, q \in Procs :
        p # q /\ InSession(p) /\ InSession(q) =>
            /\ pc[p] = "reading" /\ pc[q] = "reading"
            /\ shelf_t = "RWShelf"

\* Under RWShelf two callers read together while no write session is open.
C14_Witness ==
    /\ shelf_t = "RWShelf"
    /\ pc["p1"] = "reading" /\ pc["p2"] = "reading"
    /\ held["p1"] = GetFlag /\ held["p2"] = GetFlag

\* The entry stored under the caller's url when its call began.
EntryAtStart(q) == pre[q].shelf[url[q]]

\* The call began after the last write to its url was released, before that
\* entry's expire_dt, and nothing was stored under the url until it had read.
BeganAfterWrite(q) ==
    /\ pc[q] # "idle"
    /\ EntryAtStart(q) # None
    /\ now[q] < Val(EntryAtStart(q)).expire_dt
    /\ ~dirty[q]

\* C15: a fetch that begins after a write to its url was released, before the
\* written expire_dt and with no write to the url in between, returns exactly
\* the written payload and does not call the collaborator.
C15_VisibilityAfterRelease ==
    \A q \in Procs :
        (/\ BeganAfterWrite(q)
         /\ ReadOver(q)
         /\ outcome[q] # Raised("StoreError", None, Some("read"))) =>
            /\ ServedFromCache(q)
            /\ outcome[q] = Returned(Val(EntryAtStart(q)).feed)
            /\ cached[q] = EntryAtStart(q)
            /\ attempts[q] = 0

\* p2 was served the entry that p1's finished call had written.
C15_Witness ==
    /\ Done("p1") /\ wrote["p1"] # None
    /\ BeganAfterWrite("p2")
    /\ EntryAtStart("p2") = fetched["p1"]
    /\ ServedFromCache("p2")
    /\ outcome["p2"] = outcome["p1"]

\* C16: a call that has ended, with a result or with any error, holds no
\* lock; a call holds no lock while it calls the collaborator, so the other
\* callers' sessions can be opened while the collaborator runs.
C16_LockReleasedAndScoped ==
    /\ \A p \in Procs : Done(p) => held[p] = "none"
    /\ \A p \in Procs : pc[p] \in {"parse", "parsing"} => held[p] = "none"
    /\ \A p \in Procs :
        (pc[p] = "parsing" /\ \A q \in Procs \ {p} : ~InSession(q)) =>
            CanOpen(GetFlag) /\ CanOpen(UpdateFlag)

\* p1 left a read session and a write session whose store failed, and holds
\* nothing; p2 is inside the collaborator, holding nothing.
C16_Witness ==
    /\ Done("p1")
    /\ outcome["p1"] = Raised("StoreError", None, Some("write"))
    /\ sessions["p1"] = <<GetFlag, UpdateFlag>>
    /\ held["p1"] = "none"
    /\ pc["p2"] = "parsing"
    /\ held["p2"] = "none"

\* The stored entry under u holds a result the collaborator returned for u,
\* with a status below 400 that is not 304, and has an expire_dt.
StoredFromResult(u) ==
    LET e == Val(shelf[u]) IN
        /\ Some(e.feed) \in delivered[u]
        /\ e.feed.status # None
        /\ Val(e.feed.status) < 400
        /\ Val(e.feed.status) # NOT_MODIFIED
        /\ e.expire_dt \in Nat

\* C19: starting from an empty store, every stored entry's payload is a
\* result the collaborator returned for that same url with a present status
\* below 400 that is not 304, and every stored entry has an expire_dt.
C19_StoredPayload ==
    \A u \in Urls : shelf[u] # None => StoredFromResult(u)

\* p1 stored an entry under "v" on a not-modified answer: the payload is the
\* feed delivered for "v" earlier, which was never delivered for "u".
C19_Witness ==
    /\ Done("p1") /\ url["p1"] = "v" /\ wrote["p1"] # None
    /\ Val(feed["p1"]).status = Some(NOT_MODIFIED)
    /\ shelf["v"] = fetched["p1"]
    /\ Some(Val(shelf["v"]).feed) \notin delivered["u"]
    /\ shelf["u"] # None

\* The call of p stored an entry.
Stored(p) == Done(p) /\ wrote[p] # None

\* The expire_dt the call of p stored.
StoredExpire(p) == Val(fetched[p]).expire_dt

\* C20 as stated: across any interleaving of fetch calls for one url, a
\* write never lowers the stored expire_dt and never replaces an entry that
\* another call wrote after this call read the cache.
C20_MonotoneFreshness ==
    \A p \in Procs :
        Stored(p) =>
            /\ Val(replaced[p]) = cached[p]
            /\ Val(replaced[p]) # None =>
                   StoredExpire(p) >= Val(Val(replaced[p])).expire_dt

\* C20 amended: a call never stores an expire_dt below that of the entry it
\* read, so a write that replaces the entry its own call read never lowers
\* the stored expire_dt.
C20_NoDecreaseAgainstOwnRead ==
    \A p \in Procs :
        Stored(p) =>
            /\ cached[p] # None => StoredExpire(p) >= Val(cached[p]).expire_dt
            /\ (Val(replaced[p]) # None /\ Val(replaced[p]) = cached[p]) =>
                   StoredExpire(p) >= Val(Val(replaced[p])).expire_dt

\* p1 replaced the stale entry it had read with one that expires later,
\* while p2 is inside the collaborator.
C20_Witness ==
    /\ Stored("p1")
    /\ cached["p1"] # None
    /\ replaced["p1"] = Some(cached["p1"])
    /\ StoredExpire("p1") > Val(cached["p1"]).expire_dt
    /\ shelf[url["p1"]] = fetched["p1"]
    /\ pc["p2"] = "parsing"

====
